---- MODULE Spec2Model ----
(***************************************************************************)
(* Listing lifecycle of the flea-market marketplace: the listings table,   *)
(* ListingService (create, edit, sweep, queries), BumpService (eligibility *)
(* read followed by the bump update) and AdminService (archive).           *)
(*                                                                         *)
(* Time is Date.now() in milliseconds.  createdAt / updatedAt are ISO      *)
(* strings of the same clock; toISOString is injective and order           *)
(* preserving, so they are kept as the millisecond value they encode.      *)
(* One action is one database round trip together with the synchronous     *)
(* code that runs when it returns; a handler that awaits twice is two      *)
(* actions, and other requests may run between them.                       *)
(***************************************************************************)
EXTENDS Integers, Sequences, FiniteSets, TLC

\* ---------------------------------------------------------------- bounds
MaxTicks == 1
MaxOps == 3
MaxListings == 2
MaxBumpReqs == 2
MaxHour == 25

\* ------------------------------------------------------- program constants
EXPIRY_DEFAULT_DAYS == 3
EXPIRY_FREE_BUMP_DAYS == 3
EXPIRY_PAID_BUMP_DAYS == 7
BUMP_COOLDOWN_HOURS == 24
MsPerHour == 3600000
MsPerDay == 86400000

ACTIVE == "active"
EXPIRED == "expired"
ARCHIVED == "archived"
LISTING_STATUS == {ACTIVE, EXPIRED, ARCHIVED}

\* SQL NULL / JS null of the nullable column last_bumped_at
Null == -1

\* text columns are sequences of characters, so that LIKE can look inside
TitleLamp == <<"L", "a", "m", "p">>
TitleBook == <<"B", "o", "o", "k">>
TextOld == <<"o", "l", "d">>
TextNew == <<"n", "e", "w">>
CatHome == <<"h", "o", "m", "e">>
CatBooks == <<"b", "o", "o", "k", "s">>
\* an omitted (undefined) text or list argument: a one-element sequence whose
\* element is no character and no status, so it equals no text and no list
Undefined == <<"<undefined>">>

\* ------------------------------------------------------------ input sets
Users == {1, 2}
Ids == 1..MaxListings
BumpReqs == 1..MaxBumpReqs
\* the clock advances by one day less 1 ms, by one day, or by three days
TickSteps == {MsPerDay - 1, MsPerDay, 3 * MsPerDay}
StartClock == 1
\* CreateListingInput values offered to createListing
CreateInputs ==
  { [title |-> TitleLamp, description |-> TextOld, price |-> 500, category |-> CatHome] }
\* UpdateListingInput values offered to updateListing; Null (numbers) and
\* Undefined (texts) mark an omitted field
UpdateInputs ==
  { [title |-> Undefined, description |-> Undefined, price |-> 900, category |-> Undefined] }
Reasons == {"prohibited item"}

VARIABLES
  clock,      \* Date.now()
  ticks,      \* number of clock advances so far (bounded by MaxTicks)
  ops,        \* number of service calls started so far (bounded by MaxOps)
  listings,   \* the listings table: id -> row, for the ids that exist
  nextId,     \* AUTOINCREMENT counter of listings.id
  bumpReq,    \* bumpListing calls in flight / their outcome, per request slot
  sweep,      \* latest expireOldListings call: its time and returned ids; clean and
              \* runs (consecutive calls, counted up to 2) are reset by any write
  bumpsDone,  \* per listing id, number of bump updates that changed the row
  arch,       \* AdminService.archiveListing call in flight / its outcome
  profiles,   \* the user_profiles table: telegramId -> row, for the users that have
              \* one (user 1 has a profile from the start, user 2 has none)
  resp,       \* the latest listing query: its input and the ids of the rows returned
  read,       \* listing-read endpoint request in flight / its outcome
  images,     \* the listing_images table (id -> row), its AUTOINCREMENT counter,
              \* the objects in the R2 bucket and the count of keys generated
  upload      \* uploadListingImages request in flight / its outcome

vars == <<clock, ticks, ops, listings, nextId, bumpReq, sweep, bumpsDone, arch,
          profiles, resp, read, images, upload>>

\* ------------------------------------------------------------- helpers
\* JS truthiness of a number-or-null value (if (listing.lastBumpedAt))
Truthy(x) == x # Null /\ x # 0

IdleBump ==
  [pc |-> "idle", listingId |-> 0, userId |-> 0, isPaid |-> FALSE,
   now |-> 0, reason |-> "", hours |-> Null, seen |-> Null]

NoSweep == [clean |-> FALSE, now |-> 0, returned |-> {}, runs |-> 0]

\* no notification handed to the notifier
NoEvent == [ownerId |-> 0, listingTitle |-> Undefined, reason |-> ""]

IdleArch ==
  [pc |-> "idle", listingId |-> 0, reason |-> "", now |-> 0,
   userId |-> 0, title |-> Undefined, success |-> FALSE, error |-> "",
   sent |-> FALSE, written |-> FALSE, event |-> NoEvent, delivery |-> "none"]

NoResp == [op |-> "none", input |-> << >>, ids |-> << >>]

NoImages == [rows |-> << >>, nextId |-> 1, r2 |-> {}, nextKey |-> 1]

\* had: the image rows the listing had when the request was accepted;
\* stored: the rows this request has inserted
IdleUpload ==
  [pc |-> "idle", listingId |-> 0, left |-> 0, had |-> {}, stored |-> {},
   status |-> 0, error |-> ""]

IdleRead ==
  [pc |-> "idle", op |-> "none", isAdmin |-> FALSE, input |-> << >>,
   sweptAt |-> 0, ids |-> << >>, hasMore |-> FALSE]

Init ==
  /\ clock = StartClock
  /\ ticks = 0
  /\ ops = 0
  /\ listings = << >>
  /\ nextId = 1
  /\ bumpReq = [r \in BumpReqs |-> IdleBump]
  /\ sweep = NoSweep
  /\ bumpsDone = [i \in Ids |-> 0]
  /\ arch = IdleArch
  /\ profiles = [u \in {1} |-> [isBanned |-> 0]]
  /\ resp = NoResp
  /\ read = IdleRead
  /\ images = NoImages
  /\ upload = IdleUpload

\* the calls still in flight; the outcome of a call that has returned is
\* kept until the next call starts
PendingBumps ==
  [r \in BumpReqs |-> IF bumpReq[r].pc = "update" THEN bumpReq[r] ELSE IdleBump]

PendingArch == IF arch.pc \in {"update", "notify"} THEN arch ELSE IdleArch

\* a service call is started
Started == ops < MaxOps /\ ops' = ops + 1

\* time passes
Tick(d) ==
  /\ ticks < MaxTicks
  /\ clock' = clock + d
  /\ ticks' = ticks + 1
  /\ UNCHANGED <<ops, listings, nextId, bumpReq, sweep, bumpsDone, arch, profiles, resp, read, images, upload>>

\* ------------------------------------------------- ListingService.createListing
\* variant: creation counts as the listing's first bump time
NewListingBumpedAtCreation(userId, input, now) ==
  [userId |-> userId,
   title |-> input.title,
   content |-> input.description,
   price |-> input.price,
   category |-> input.category,
   status |-> ACTIVE,
   expiresAt |-> now + EXPIRY_DEFAULT_DAYS * MsPerDay,
   lastBumpedAt |-> now,
   bumpCount |-> 0,
   createdAt |-> now,
   updatedAt |-> now]

NewListing(userId, input, now) ==
  [userId |-> userId,
   title |-> input.title,
   content |-> input.description,
   price |-> input.price,
   category |-> input.category,
   status |-> ACTIVE,
   expiresAt |-> now + EXPIRY_DEFAULT_DAYS * MsPerDay,
   lastBumpedAt |-> Null,
   bumpCount |-> 0,
   createdAt |-> now,
   updatedAt |-> now]

CreateListing(userId, input) ==
  /\ nextId <= MaxListings
  /\ listings' = listings @@ (nextId :> NewListing(userId, input, clock))
  /\ nextId' = nextId + 1
  /\ sweep' = NoSweep
  /\ Started
  /\ bumpReq' = PendingBumps
  /\ arch' = PendingArch
  /\ UNCHANGED <<clock, ticks, bumpsDone, profiles, resp, read, images, upload>>

\* ------------------------------------------------- BumpService.canBumpListing
CooldownMs == BUMP_COOLDOWN_HOURS * MsPerHour

\* variant: the boundary of exactly 24 hours still counts as cooling down
InCooldownInclusive(lastBumpedAt, now) == (now - lastBumpedAt) <= CooldownMs

\* hoursSinceLastBump < BUMP_COOLDOWN_HOURS, with hoursSinceLastBump the real
\* quotient (now - lastBumpedAt) / MsPerHour
InCooldown(lastBumpedAt, now) == (now - lastBumpedAt) < CooldownMs

\* variant: the hours left are rounded down
HoursUntilNextBumpFloor(lastBumpedAt, now) ==
  (CooldownMs - (now - lastBumpedAt)) \div MsPerHour

\* Math.ceil(BUMP_COOLDOWN_HOURS - hoursSinceLastBump): ceil(24 - x) = 24 - floor(x)
HoursUntilNextBump(lastBumpedAt, now) ==
  BUMP_COOLDOWN_HOURS - ((now - lastBumpedAt) \div MsPerHour)

\* variant: the cooldown is looked at before the owner
CanBumpListingCooldownFirst(store, listingId, userId, now) ==
  IF listingId \notin DOMAIN store
  THEN [canBump |-> FALSE, reason |-> "Listing not found", hours |-> Null]
  ELSE IF Truthy(store[listingId].lastBumpedAt)
          /\ InCooldown(store[listingId].lastBumpedAt, now)
  THEN [canBump |-> FALSE, reason |-> "You can bump again in N hour(s)",
        hours |-> HoursUntilNextBump(store[listingId].lastBumpedAt, now)]
  ELSE IF store[listingId].userId # userId
  THEN [canBump |-> FALSE, reason |-> "You don't own this listing", hours |-> Null]
  ELSE [canBump |-> TRUE, reason |-> "", hours |-> Null]

CanBumpListing(store, listingId, userId, now) ==
  IF listingId \notin DOMAIN store
  THEN [canBump |-> FALSE, reason |-> "Listing not found", hours |-> Null]
  ELSE IF store[listingId].userId # userId
  THEN [canBump |-> FALSE, reason |-> "You don't own this listing", hours |-> Null]
  ELSE IF Truthy(store[listingId].lastBumpedAt)
          /\ InCooldown(store[listingId].lastBumpedAt, now)
  THEN [canBump |-> FALSE, reason |-> "You can bump again in N hour(s)",
        hours |-> HoursUntilNextBump(store[listingId].lastBumpedAt, now)]
  ELSE [canBump |-> TRUE, reason |-> "", hours |-> Null]

\* ------------------------------------------------- BumpService.bumpListing
\* a new call takes the first request slot that has no update pending
FreeSlots == {r \in BumpReqs : bumpReq[r].pc # "update"}
FreeSlot == CHOOSE r \in FreeSlots : \A q \in FreeSlots : r <= q

\* first round trip: the eligibility select; on return the code throws, or
\* reads the clock and issues the update
BumpCheck(r, listingId, userId, isPaid) ==
  /\ FreeSlots # {}
  /\ r = FreeSlot
  /\ LET e == CanBumpListing(listings, listingId, userId, clock) IN
       bumpReq' = [PendingBumps EXCEPT ![r] =
         [pc |-> IF e.canBump THEN "update" ELSE "failed",
          listingId |-> listingId, userId |-> userId, isPaid |-> isPaid,
          now |-> IF e.canBump THEN clock ELSE 0,
          reason |-> e.reason, hours |-> e.hours,
          seen |-> IF listingId \in DOMAIN listings
                   THEN listings[listingId].bumpCount ELSE Null]]
  /\ Started
  /\ arch' = PendingArch
  /\ UNCHANGED <<clock, ticks, listings, nextId, sweep, bumpsDone, profiles, resp, read, images, upload>>

DaysToAdd(isPaid) ==
  IF isPaid THEN EXPIRY_PAID_BUMP_DAYS ELSE EXPIRY_FREE_BUMP_DAYS

\* variants of the bump update with a slip in it
BumpSetAdditive(row, now, isPaid) ==
  [row EXCEPT !.expiresAt = row.expiresAt + DaysToAdd(isPaid) * MsPerDay,
              !.lastBumpedAt = now,
              !.bumpCount = row.bumpCount + 1,
              !.status = ACTIVE,
              !.updatedAt = now]

BumpSetKeepExpiry(row, now, isPaid) ==
  [row EXCEPT !.lastBumpedAt = now,
              !.bumpCount = row.bumpCount + 1,
              !.status = ACTIVE,
              !.updatedAt = now]

BumpSetKeepCount(row, now, isPaid) ==
  [row EXCEPT !.expiresAt = now + DaysToAdd(isPaid) * MsPerDay,
              !.lastBumpedAt = now,
              !.status = ACTIVE,
              !.updatedAt = now]

BumpSetKeepStatus(row, now, isPaid) ==
  [row EXCEPT !.expiresAt = now + DaysToAdd(isPaid) * MsPerDay,
              !.lastBumpedAt = now,
              !.bumpCount = row.bumpCount + 1,
              !.updatedAt = now]

\* the SET clause of the bump update applied to one row
BumpSet(row, now, isPaid) ==
  [row EXCEPT !.expiresAt = now + DaysToAdd(isPaid) * MsPerDay,
              !.lastBumpedAt = now,
              !.bumpCount = row.bumpCount + 1,
              !.status = ACTIVE,
              !.updatedAt = now]

\* variant: the count written is the count canBumpListing read, plus one
BumpUpdateReadModifyWrite(r) ==
  /\ bumpReq[r].pc = "update"
  /\ LET id == bumpReq[r].listingId IN
       IF id \in DOMAIN listings
       THEN /\ listings' = [listings EXCEPT ![id] =
                              [BumpSet(listings[id], bumpReq[r].now, bumpReq[r].isPaid)
                                 EXCEPT !.bumpCount = bumpReq[r].seen + 1]]
            /\ bumpsDone' = [bumpsDone EXCEPT ![id] = @ + 1]
            /\ sweep' = NoSweep
       ELSE UNCHANGED <<listings, bumpsDone, sweep>>
  /\ bumpReq' = [bumpReq EXCEPT ![r].pc = "done"]
  /\ UNCHANGED <<clock, ticks, ops, nextId, arch, profiles, resp, read, images, upload>>

\* second round trip: UPDATE listings SET ... WHERE id = listingId
BumpUpdate(r) ==
  /\ bumpReq[r].pc = "update"
  /\ LET id == bumpReq[r].listingId IN
       IF id \in DOMAIN listings
       THEN /\ listings' = [listings EXCEPT ![id] =
                              BumpSet(listings[id], bumpReq[r].now, bumpReq[r].isPaid)]
            /\ bumpsDone' = [bumpsDone EXCEPT ![id] = @ + 1]
            /\ sweep' = NoSweep
       ELSE UNCHANGED <<listings, bumpsDone, sweep>>
  /\ bumpReq' = [bumpReq EXCEPT ![r].pc = "done"]
  /\ UNCHANGED <<clock, ticks, ops, nextId, arch, profiles, resp, read, images, upload>>

\* ------------------------------------------------- ListingService.expireOldListings
\* variants of the sweep's WHERE clause with a slip in it
SweepMatchesStrict(row, now) == row.status = ACTIVE /\ row.expiresAt < now

SweepMatchesAnyStatus(row, now) == row.expiresAt <= now

SweepMatchesActiveOnly(row, now) == row.status = ACTIVE

\* the WHERE clause of the sweep
SweepMatches(row, now) == row.status = ACTIVE /\ row.expiresAt <= now

ExpireSet(row, now) == [row EXCEPT !.status = EXPIRED, !.updatedAt = now]

\* the UPDATE ... RETURNING statement of the sweep
ExpireOldListingsWrite ==
  LET hit == {i \in DOMAIN listings : SweepMatches(listings[i], clock)} IN
  /\ listings' = [i \in DOMAIN listings |->
                    IF i \in hit THEN ExpireSet(listings[i], clock) ELSE listings[i]]
  /\ sweep' = [clean |-> TRUE, now |-> clock, returned |-> hit,
               runs |-> IF sweep.runs < 2 THEN sweep.runs + 1 ELSE 2]

ExpireOldListings ==
  /\ ExpireOldListingsWrite
  /\ Started
  /\ bumpReq' = PendingBumps
  /\ arch' = PendingArch
  /\ UNCHANGED <<clock, ticks, nextId, bumpsDone, profiles, resp, read, images, upload>>

\* ------------------------------------------------- ListingService.updateListing
UpdateSet(row, input, now) ==
  [row EXCEPT !.updatedAt = now,
              !.title = IF input.title # Undefined THEN input.title ELSE @,
              !.content = IF input.description # Undefined THEN input.description ELSE @,
              !.price = IF input.price # Null THEN input.price ELSE @,
              !.category = IF input.category # Undefined THEN input.category ELSE @]

\* UPDATE listings SET ... WHERE id = id AND user_id = userId
UpdateListing(id, userId, input) ==
  /\ IF id \in DOMAIN listings /\ listings[id].userId = userId
     THEN /\ listings' = [listings EXCEPT ![id] = UpdateSet(listings[id], input, clock)]
          /\ sweep' = NoSweep
     ELSE UNCHANGED <<listings, sweep>>
  /\ Started
  /\ bumpReq' = PendingBumps
  /\ arch' = PendingArch
  /\ UNCHANGED <<clock, ticks, nextId, bumpsDone, profiles, resp, read, images, upload>>

\* ------------------------------------------------- AdminService.archiveListing
\* first round trip: select the listing; a missing listing is reported at once
ArchiveSelect(listingId, reason) ==
  /\ arch.pc \in {"idle", "done"}
  /\ arch' = IF listingId \in DOMAIN listings
             THEN [pc |-> "update", listingId |-> listingId, reason |-> reason,
                   now |-> clock, userId |-> listings[listingId].userId,
                   title |-> listings[listingId].title, success |-> FALSE,
                   error |-> "", sent |-> FALSE, written |-> FALSE,
                   event |-> NoEvent, delivery |-> "none"]
             ELSE [IdleArch EXCEPT !.pc = "done", !.listingId = listingId,
                                   !.reason = reason,
                                   !.error = "Listing not found"]
  /\ Started
  /\ bumpReq' = PendingBumps
  /\ UNCHANGED <<clock, ticks, listings, nextId, sweep, bumpsDone, profiles, resp, read, images, upload>>

\* variant: only an active listing is archived
ArchiveSetActiveOnly(row, now) ==
  IF row.status = ACTIVE THEN [row EXCEPT !.status = ARCHIVED, !.updatedAt = now] ELSE row

ArchiveSet(row, now) == [row EXCEPT !.status = ARCHIVED, !.updatedAt = now]

\* second round trip: UPDATE listings SET status = 'archived' WHERE id = listingId
ArchiveUpdate ==
  /\ arch.pc = "update"
  /\ IF arch.listingId \in DOMAIN listings
     THEN /\ listings' = [listings EXCEPT ![arch.listingId] =
                            ArchiveSet(listings[arch.listingId], arch.now)]
          /\ sweep' = NoSweep
     ELSE UNCHANGED <<listings, sweep>>
  /\ arch' = [arch EXCEPT !.pc = "notify",
                          !.written = arch.listingId \in DOMAIN listings]
  /\ UNCHANGED <<clock, ticks, ops, nextId, bumpReq, bumpsDone, profiles, resp, read, images, upload>>

\* what becomes of a notification: Telegram accepts it, Telegram answers
\* ok: false, the fetch throws, or no bot token is configured
NotifyOutcomes == {"ok", "not ok", "fetch failed", "no token"}

\* variant: the notification goes out without the reason
NotificationEventNoReason(userId, listingTitle, reason) ==
  [ownerId |-> userId, listingTitle |-> listingTitle, reason |-> ""]

\* the arguments of sendArchiveNotification: chat_id and the two texts of the message
NotificationEvent(userId, listingTitle, reason) ==
  [ownerId |-> userId, listingTitle |-> listingTitle, reason |-> reason]

\* variant: a notification that was not delivered fails the archive
ArchiveResultStrict(outcome) == outcome = "ok"

\* the success flag archiveListing returns after the notifier has come back:
\* sendArchiveNotification logs every failure and never throws
ArchiveResult(outcome) == TRUE

\* await sendArchiveNotification(listing.userId, listing.title, reason) with
\* the owner and title the select read, then return { success: true }
ArchiveNotify(outcome) ==
  /\ arch.pc = "notify"
  /\ arch' = [arch EXCEPT !.pc = "done",
                          !.success = ArchiveResult(outcome),
                          !.sent = (outcome = "ok"),
                          !.event = NotificationEvent(arch.userId, arch.title, arch.reason),
                          !.delivery = outcome]
  /\ UNCHANGED <<clock, ticks, ops, listings, nextId, bumpReq, sweep, bumpsDone, profiles, resp, read, images, upload>>

\* ------------------------------------------------- listing queries
\* ASCII case folding of the letters the texts use (LIKE ignores ASCII case)
Fold(c) == IF c = "L" THEN "l" ELSE IF c = "B" THEN "b" ELSE c

\* like(column, `%${term}%`) for a term without wildcard characters
Like(text, term) ==
  \E k \in 0..(Len(text) - Len(term)) :
    \A j \in 1..Len(term) : Fold(text[k + j]) = Fold(term[j])

\* JS truthiness of a text or list argument
Given(t) == t # Undefined /\ Len(t) > 0

\* variant: no status condition at all when the status argument is missing
StatusCondNoDefault(row, input) ==
  Given(input.status) => \E k \in 1..Len(input.status) : row.status = input.status[k]

\* the status condition, 'active' only when no status list is given
StatusCond(row, input) ==
  IF Given(input.status)
  THEN \E k \in 1..Len(input.status) : row.status = input.status[k]
  ELSE row.status = ACTIVE

\* variant: the upper price bound is exclusive
OtherCondsExclusiveMax(row, input) ==
  /\ Given(input.category) => row.category = input.category
  /\ input.priceMin # Null => row.price >= input.priceMin
  /\ input.priceMax # Null => row.price < input.priceMax
  /\ input.userId # Null => row.userId = input.userId
  /\ Given(input.search) =>
       \/ Like(row.title, input.search)
       \/ Like(row.content, input.search)
       \/ Like(row.category, input.search)

\* the category, price, owner and search conditions, each only when given
OtherConds(row, input) ==
  /\ Given(input.category) => row.category = input.category
  /\ input.priceMin # Null => row.price >= input.priceMin
  /\ input.priceMax # Null => row.price <= input.priceMax
  /\ input.userId # Null => row.userId = input.userId
  /\ Given(input.search) =>
       \/ Like(row.title, input.search)
       \/ Like(row.content, input.search)
       \/ Like(row.category, input.search)

\* ORDER BY price or created_at, ascending or descending; rows with equal keys
\* may come in either order
SortKey(row, input) == IF input.sortBy = "price" THEN row.price ELSE row.createdAt

Ordered(store, seq, input) ==
  \A a, b \in 1..Len(seq) :
    a < b => IF input.sortOrder = "asc"
             THEN SortKey(store[seq[a]], input) <= SortKey(store[seq[b]], input)
             ELSE SortKey(store[seq[a]], input) >= SortKey(store[seq[b]], input)

Orderings(store, match, input) ==
  {seq \in [1..Cardinality(match) -> match] :
     /\ \A a, b \in 1..Cardinality(match) : a # b => seq[a] # seq[b]
     /\ Ordered(store, seq, input)}

\* LIMIT limit OFFSET offset
Page(seq, limit, offset) ==
  LET last == IF offset + limit < Len(seq) THEN offset + limit ELSE Len(seq) IN
  IF offset >= Len(seq) THEN << >> ELSE SubSeq(seq, offset + 1, last)

\* ListingService.getListings: rows of listings that meet every condition
GetListingsMatch(store, input) ==
  {i \in DOMAIN store : StatusCond(store[i], input) /\ OtherConds(store[i], input)}

GetListings(input) ==
  /\ \E seq \in Orderings(listings, GetListingsMatch(listings, input), input) :
       resp' = [op |-> "getListings", input |-> input,
                ids |-> Page(seq, input.limit, input.offset)]
  /\ UNCHANGED <<clock, ticks, ops, listings, nextId, bumpReq, sweep, bumpsDone,
                 arch, profiles, read, images, upload>>

\* ListingService.getListingsWithImages: listings LEFT JOIN user_profiles ON
\* user_id = telegram_id WHERE user_profiles.is_banned = 0 AND ...; a listing
\* whose owner has no profile row joins to NULLs and fails is_banned = 0
\* variant: the join condition on is_banned is dropped
OwnerAny(profs, row) == TRUE

\* variant: an owner without a profile row passes
OwnerNotFlagged(profs, row) ==
  row.userId \notin DOMAIN profs \/ profs[row.userId].isBanned = 0

OwnerNotBanned(profs, row) ==
  row.userId \in DOMAIN profs /\ profs[row.userId].isBanned = 0

GetListingsWithImagesMatch(store, profs, input) ==
  {i \in DOMAIN store :
     /\ OwnerNotBanned(profs, store[i])
     /\ StatusCond(store[i], input)
     /\ OtherConds(store[i], input)}

GetListingsWithImages(input) ==
  /\ \E seq \in Orderings(listings,
                          GetListingsWithImagesMatch(listings, profiles, input), input) :
       resp' = [op |-> "getListingsWithImages", input |-> input,
                ids |-> Page(seq, input.limit, input.offset)]
  /\ UNCHANGED <<clock, ticks, ops, listings, nextId, bumpReq, sweep, bumpsDone,
                 arch, profiles, read, images, upload>>

\* ------------------------------------------------- write endpoints
\* the session authenticateUser finds for the request: none, or a user's
\* session with its role
NoSession == [userId |-> 0, role |-> "none"]
Sessions ==
  {NoSession} \cup {[userId |-> u, role |-> ro] : u \in Users, ro \in {"user", "admin"}}

\* variant: any signed-in user passes for an administrator
IsAdminAnySession(session) == session # NoSession

\* authResult.session.role === "admin"
IsAdmin(session) == session.role = "admin"

\* the reasons an archive request may carry; the empty one is refused
ArchiveReasons == Reasons \cup {""}

\* the archive endpoint answers with an error before it calls the service
ArchiveRejected(listingId, reason, error) ==
  /\ arch.pc \in {"idle", "done"}
  /\ arch' = [IdleArch EXCEPT !.pc = "done", !.listingId = listingId,
                              !.reason = reason, !.error = error]
  /\ Started
  /\ bumpReq' = PendingBumps
  /\ UNCHANGED <<clock, ticks, listings, nextId, sweep, bumpsDone, profiles, resp, read, images, upload>>

\* POST archive: session, role admin, listing id, reason, then AdminService
ArchiveListing(session, listingId, reason) ==
  IF session = NoSession
  THEN ArchiveRejected(listingId, reason, "Authentication required")
  ELSE IF ~IsAdmin(session)
  THEN ArchiveRejected(listingId, reason, "Admin access required")
  ELSE IF reason = ""
  THEN ArchiveRejected(listingId, reason, "Reason is required")
  ELSE ArchiveSelect(listingId, reason)

\* the bump endpoint answers without calling the service
BumpAnswered(r, listingId, userId, isPaid, pc, message) ==
  /\ FreeSlots # {}
  /\ r = FreeSlot
  /\ bumpReq' = [PendingBumps EXCEPT ![r] =
       [pc |-> pc, listingId |-> listingId, userId |-> userId, isPaid |-> isPaid,
        now |-> 0, reason |-> message, hours |-> Null, seen |-> Null]]
  /\ Started
  /\ arch' = PendingArch
  /\ UNCHANGED <<clock, ticks, listings, nextId, sweep, bumpsDone, profiles, resp, read, images, upload>>

\* variant: the endpoint hands a paid bump to the service as it is
BumpListingPaidThrough(r, session, listingId, isPaid) ==
  IF session = NoSession
  THEN BumpAnswered(r, listingId, 0, isPaid, "failed", "Authentication required")
  ELSE BumpCheck(r, listingId, session.userId, isPaid)

\* POST bump: session, listing id, body.isPaid === true; a free bump goes to
\* BumpService for the session's user, a paid one is answered with a message
BumpListing(r, session, listingId, isPaid) ==
  IF session = NoSession
  THEN BumpAnswered(r, listingId, 0, isPaid, "failed", "Authentication required")
  ELSE IF ~isPaid
  THEN BumpCheck(r, listingId, session.userId, FALSE)
  ELSE BumpAnswered(r, listingId, session.userId, isPaid, "message",
                    "Paid bump requires payment - to be implemented with Telegram Stars")

\* ------------------------------------------------- listing-read endpoints
\* a query-string parameter: missing or empty, a text parseInt reads no number
\* from, or a text parseInt reads the integer n from
ParamAbsent == [kind |-> "absent", n |-> 0]
ParamText == [kind |-> "text", n |-> 0]
ParamInt(n) == [kind |-> "int", n |-> n]

\* parseInt(param || fallback, 10) || fallback: NaN and 0 are both falsy
ParseIntOr(param, fallback) ==
  IF param.kind = "int" /\ param.n # 0 THEN param.n ELSE fallback

Min(a, b) == IF a < b THEN a ELSE b
Max(a, b) == IF a > b THEN a ELSE b

\* Math.min(Math.max(parseInt(limitParam, 10) || 50, 1), 100)
ParseLimit(param) == Min(Max(ParseIntOr(param, 50), 1), 100)

\* Math.max(parseInt(offsetParam, 10) || 0, 0)
ParseOffset(param) == Max(ParseIntOr(param, 0), 0)

\* parseListingFilters for a request that carries limit, offset and status
ParseListingFilters(query) ==
  [limit |-> ParseLimit(query.limit), offset |-> ParseOffset(query.offset),
   category |-> Undefined, priceMin |-> Null, priceMax |-> Null,
   search |-> Undefined, sortBy |-> "date", sortOrder |-> "desc",
   status |-> query.status, userId |-> Null]

\* variant: hasMore tells whether the page holds any listing
HasMoreNonEmpty(page, limit) == Len(page) > 0

\* createPaginationResponse: hasMore is listings.length === limit
HasMore(page, limit) == Len(page) = limit

\* filters as parseListingFilters hands them to the service, userId unset
ReadFilters ==
  { [limit |-> 50, offset |-> 0, category |-> Undefined, priceMin |-> Null,
     priceMax |-> Null, search |-> Undefined, sortBy |-> "date",
     sortOrder |-> "desc", status |-> st, userId |-> Null] :
      st \in {Undefined, <<ACTIVE, EXPIRED, ARCHIVED>>} }

\* a new read request is taken once the previous one has been answered
ReadFree == read.pc \in {"idle", "done"}

\* variant: the browse endpoint goes straight to its query
GetAllListingsNoSweep(isAdmin, filters) ==
  /\ ReadFree
  /\ read' = [pc |-> "query", op |-> "getAllListings", isAdmin |-> isAdmin,
              input |-> filters, sweptAt |-> clock, ids |-> << >>,
              hasMore |-> FALSE]
  /\ Started
  /\ bumpReq' = PendingBumps
  /\ arch' = PendingArch
  /\ UNCHANGED <<clock, ticks, listings, sweep, nextId, bumpsDone, profiles, resp, images, upload>>

\* getAllListings: the sweep, then the query; the requester's role is never read
GetAllListings(isAdmin, filters) ==
  /\ ReadFree
  /\ ExpireOldListingsWrite
  /\ read' = [pc |-> "query", op |-> "getAllListings", isAdmin |-> isAdmin,
              input |-> filters, sweptAt |-> clock, ids |-> << >>,
              hasMore |-> FALSE]
  /\ Started
  /\ bumpReq' = PendingBumps
  /\ arch' = PendingArch
  /\ UNCHANGED <<clock, ticks, nextId, bumpsDone, profiles, resp, images, upload>>

\* targetProfile && targetProfile.isBanned === 1
TargetBanned(profs, userId) ==
  userId \in DOMAIN profs /\ profs[userId].isBanned = 1

\* getUserListings: the profile lookup first; a banned target is answered
\* with an empty page at once unless the viewer's session has role admin
GetUserListings(isAdmin, userId, filters) ==
  /\ ReadFree
  /\ read' = [pc |-> IF TargetBanned(profiles, userId) /\ ~isAdmin
                     THEN "done" ELSE "sweep",
              op |-> "getUserListings", isAdmin |-> isAdmin,
              input |-> [filters EXCEPT !.userId = userId],
              sweptAt |-> Null, ids |-> << >>,
              hasMore |-> HasMore(<< >>, filters.limit)]
  /\ Started
  /\ bumpReq' = PendingBumps
  /\ arch' = PendingArch
  /\ UNCHANGED <<clock, ticks, listings, nextId, sweep, bumpsDone, profiles, resp, images, upload>>

\* getUserListings, second round trip: the sweep
GetUserListingsSweep ==
  /\ read.pc = "sweep"
  /\ ExpireOldListingsWrite
  /\ read' = [read EXCEPT !.pc = "query", !.sweptAt = clock]
  /\ UNCHANGED <<clock, ticks, ops, nextId, bumpReq, bumpsDone, arch, profiles, resp, images, upload>>

\* getListingById: the sweep, then the select by id
GetListingById(listingId) ==
  /\ ReadFree
  /\ ExpireOldListingsWrite
  /\ read' = [pc |-> "query", op |-> "getListingById", isAdmin |-> FALSE,
              input |-> [listingId |-> listingId], sweptAt |-> clock, ids |-> << >>,
              hasMore |-> FALSE]
  /\ Started
  /\ bumpReq' = PendingBumps
  /\ arch' = PendingArch
  /\ UNCHANGED <<clock, ticks, nextId, bumpsDone, profiles, resp, images, upload>>

\* ListingService.getListingByIdWithImages: SELECT ... WHERE id = id LIMIT 1
GetListingByIdWithImages(store, id) ==
  IF id \in DOMAIN store THEN <<id>> ELSE << >>

\* the pages the endpoint's query may return from the store as it is now
ReadResults ==
  IF read.op = "getListingById"
  THEN {GetListingByIdWithImages(listings, read.input.listingId)}
  ELSE {Page(seq, read.input.limit, read.input.offset) :
          seq \in Orderings(listings,
                            GetListingsWithImagesMatch(listings, profiles, read.input),
                            read.input)}

\* last round trip of a read endpoint: its query, answered to the caller
ReadQuery ==
  /\ read.pc = "query"
  /\ \E page \in ReadResults :
       read' = [read EXCEPT !.pc = "done", !.ids = page,
                            !.hasMore = IF read.op = "getListingById" THEN FALSE
                                        ELSE HasMore(page, read.input.limit)]
  /\ UNCHANGED <<clock, ticks, ops, listings, nextId, bumpReq, sweep, bumpsDone,
                 arch, profiles, resp, images, upload>>

\* ------------------------------------------------- specifications
\* listing ids a request may name: every id handed out so far and the next,
\* which no listing has yet
RequestIds == 1..nextId

\* a service call starts
Calls ==
  \/ \E u \in Users, input \in CreateInputs : CreateListing(u, input)
  \/ \E r \in BumpReqs, i \in RequestIds, u \in Users, p \in BOOLEAN :
       BumpCheck(r, i, u, p)
  \/ ExpireOldListings
  \/ \E i \in RequestIds, u \in Users, input \in UpdateInputs : UpdateListing(i, u, input)
  \/ \E i \in RequestIds, reason \in Reasons : ArchiveSelect(i, reason)

\* a call in flight takes its next round trip
Steps ==
  \/ \E r \in BumpReqs : BumpUpdate(r)
  \/ ArchiveUpdate
  \/ \E outcome \in NotifyOutcomes : ArchiveNotify(outcome)

Next ==
  \/ \E d \in TickSteps : Tick(d)
  \/ Calls
  \/ Steps

\* the lifecycle under every interleaving of the calls' round trips
Spec == Init /\ [][Next]_vars

\* the same calls one after the other: no call starts while another is in flight
NoCallInFlight ==
  /\ \A r \in BumpReqs : bumpReq[r].pc # "update"
  /\ arch.pc \notin {"update", "notify"}

NextSerial ==
  \/ \E d \in TickSteps : Tick(d)
  \/ NoCallInFlight /\ Calls
  \/ Steps

SpecSerial == Init /\ [][NextSerial]_vars

\* a read endpoint is called
Reads ==
  \/ \E a \in BOOLEAN, f \in ReadFilters : GetAllListings(a, f)
  \/ \E a \in BOOLEAN, u \in Users, f \in ReadFilters : GetUserListings(a, u, f)
  \/ \E i \in RequestIds : GetListingById(i)

\* a read in flight takes its next round trip
ReadSteps ==
  \/ GetUserListingsSweep
  \/ ReadQuery

\* the lifecycle together with the read endpoints.  A request is answered
\* within seconds (Workers and D1 time limits) and the clock advances by most
\* of a day or more, so no advance falls between a writing call's clock
\* reading and its write
NextRead ==
  \/ \E d \in TickSteps : NoCallInFlight /\ Tick(d)
  \/ Calls
  \/ Steps
  \/ Reads
  \/ ReadSteps

SpecRead == Init /\ [][NextRead]_vars

\* the eligibility check, put to a listing that was bumped a given time ago:
\* every whole hour up to MaxHour, on the hour, 1 ms and half an hour past it,
\* and 1 ms short of the next
CooldownElapsed ==
  {h * MsPerHour + d : h \in 0..MaxHour, d \in {0, 1, MsPerHour \div 2, MsPerHour - 1}}

CooldownRow ==
  BumpSet(NewListing(1, CHOOSE input \in CreateInputs : TRUE, StartClock),
          StartClock + MsPerDay, FALSE)

InitCooldown ==
  /\ clock \in {CooldownRow.lastBumpedAt + e : e \in CooldownElapsed}
  /\ ticks = 0
  /\ ops = 0
  /\ listings = <<CooldownRow>>
  /\ nextId = 2
  /\ bumpReq = [r \in BumpReqs |-> IdleBump]
  /\ sweep = NoSweep
  /\ bumpsDone = [i \in Ids |-> IF i = 1 THEN 1 ELSE 0]
  /\ arch = IdleArch
  /\ profiles = [u \in {1} |-> [isBanned |-> 0]]
  /\ resp = NoResp
  /\ read = IdleRead
  /\ images = NoImages
  /\ upload = IdleUpload

NextCooldown ==
  \/ \E r \in BumpReqs, i \in RequestIds, u \in Users, p \in BOOLEAN :
       BumpCheck(r, i, u, p)
  \/ \E r \in BumpReqs : BumpUpdate(r)

SpecCooldown == InitCooldown /\ [][NextCooldown]_vars

\* the lifecycle as the HTTP endpoints drive it: bumps and archives enter
\* through their endpoints only
HttpCalls ==
  \/ \E u \in Users, input \in CreateInputs : CreateListing(u, input)
  \/ \E r \in BumpReqs, s \in Sessions, i \in RequestIds, p \in BOOLEAN :
       BumpListing(r, s, i, p)
  \/ \E s \in Sessions, i \in RequestIds, reason \in ArchiveReasons :
       ArchiveListing(s, i, reason)
  \/ ExpireOldListings

NextHttp ==
  \/ \E d \in TickSteps : Tick(d)
  \/ HttpCalls
  \/ Steps

SpecHttp == Init /\ [][NextHttp]_vars

\* ---------------------------------------------------------- listing images
\* images.length > 10 and currentImageCount + images.length > 10
MaxImagesPerListing == 10

\* the numbers of valid image files a multipart request may carry
UploadSizes == {0, 1, 9, 10, 11}

\* how far uploadListingImage gets: the two r2.put calls, then the insert
StoreOutcomes ==
  {"stored", "put image failed", "put thumbnail failed", "insert failed"}

\* the ids of the listing_images rows WHERE listing_id = listingId
ImagesOf(rows, listingId) == {i \in DOMAIN rows : rows[i].listingId = listingId}

\* ImageService.getListingImageCount: select({count: listingImages.id}) takes
\* the id column of the first matching row, in whatever order the database
\* yields the rows; no row gives 0. The set of the values it may return
GetListingImageCount(rows, listingId) ==
  IF ImagesOf(rows, listingId) = {} THEN {0} ELSE ImagesOf(rows, listingId)

\* the objects r2.delete removes for the rows ids
ObjectsOf(rows, ids) ==
  UNION {{<<rows[i].key, "full">>, <<rows[i].key, "thumbs">>} : i \in ids}

\* the endpoint answers without storing anything
UploadRejected(listingId, status, error) ==
  /\ upload' = [IdleUpload EXCEPT !.pc = "done", !.listingId = listingId,
                                  !.status = status, !.error = error]
  /\ UNCHANGED images

\* uploadListingImages endpoint up to the count check: session, listing
\* lookup, ownership, the number of files, the current image count
UploadListingImages(session, listingId, n) ==
  /\ upload.pc \in {"idle", "done"}
  /\ Started
  /\ IF session = NoSession
       THEN UploadRejected(listingId, 401, "Authentication required")
     ELSE IF listingId \notin DOMAIN listings
       THEN UploadRejected(listingId, 404, "Listing not found")
     ELSE IF listings[listingId].userId # session.userId
       THEN UploadRejected(listingId, 403,
                           "Not authorized to upload images to this listing")
     ELSE IF n = 0
       THEN UploadRejected(listingId, 400, "No valid images provided")
     ELSE IF n > MaxImagesPerListing
       THEN UploadRejected(listingId, 400, "Maximum 10 images allowed per listing")
     ELSE \E currentImageCount \in GetListingImageCount(images.rows, listingId) :
            IF currentImageCount + n > MaxImagesPerListing
              THEN UploadRejected(listingId, 400,
                                  "Maximum 10 images allowed per listing")
              ELSE /\ upload' = [pc |-> "store", listingId |-> listingId,
                                 left |-> n,
                                 had |-> ImagesOf(images.rows, listingId),
                                 stored |-> {}, status |-> 0, error |-> ""]
                   /\ UNCHANGED images
  /\ UNCHANGED <<clock, ticks, listings, nextId, bumpReq, sweep, bumpsDone, arch,
                 profiles, resp, read>>

\* ImageService.uploadListingImage for the next file of the batch: put the
\* image, put the thumbnail, insert the row; the first failure is caught by
\* uploadListingImages, which goes on to the cleanup
UploadListingImage(outcome) ==
  /\ upload.pc = "store"
  /\ LET k == images.nextKey
         id == images.nextId
         puts == IF outcome = "put image failed" THEN {}
                 ELSE IF outcome = "put thumbnail failed" THEN {<<k, "full">>}
                 ELSE {<<k, "full">>, <<k, "thumbs">>}
     IN IF outcome = "stored"
          THEN /\ images' = [rows |-> images.rows @@
                                        (id :> [listingId |-> upload.listingId,
                                                key |-> k]),
                             nextId |-> id + 1,
                             r2 |-> images.r2 \cup puts,
                             nextKey |-> k + 1]
               /\ upload' = [upload EXCEPT
                               !.stored = @ \cup {id},
                               !.left = @ - 1,
                               !.pc = IF upload.left = 1 THEN "done" ELSE "store",
                               !.status = IF upload.left = 1 THEN 201 ELSE 0]
          ELSE /\ images' = [images EXCEPT !.r2 = @ \cup puts, !.nextKey = k + 1]
               /\ upload' = [upload EXCEPT !.pc = "cleanup"]
  /\ UNCHANGED <<clock, ticks, ops, listings, nextId, bumpReq, sweep, bumpsDone,
                 arch, profiles, resp, read>>

\* ImageService.cleanupListingImages(listingId): select the listing's rows,
\* delete their objects (a failing r2.delete is logged and skipped), delete
\* every row WHERE listing_id = listingId
CleanupListingImages(rows, r2, listingId, r2ok) ==
  [rows |-> [i \in DOMAIN rows \ ImagesOf(rows, listingId) |-> rows[i]],
   r2 |-> IF r2ok THEN r2 \ ObjectsOf(rows, ImagesOf(rows, listingId)) ELSE r2]

\* uploadListingImages catch block: cleanup, rethrow; the endpoint answers 500
UploadCleanup(r2ok) ==
  /\ upload.pc = "cleanup"
  /\ LET after == CleanupListingImages(images.rows, images.r2,
                                       upload.listingId, r2ok)
     IN images' = [images EXCEPT !.rows = after.rows, !.r2 = after.r2]
  /\ upload' = [upload EXCEPT !.pc = "done", !.status = 500,
                              !.error = "Failed to upload images"]
  /\ UNCHANGED <<clock, ticks, ops, listings, nextId, bumpReq, sweep, bumpsDone,
                 arch, profiles, resp, read>>

\* deleteListingImage endpoint and ImageService.deleteListingImage: session,
\* listing lookup, ownership, the row WHERE id = imageId AND listing_id =
\* listingId; a request that fails one of them returns without a write
DeleteListingImage(session, listingId, imageId, r2ok) ==
  /\ session # NoSession
  /\ listingId \in DOMAIN listings
  /\ listings[listingId].userId = session.userId
  /\ imageId \in ImagesOf(images.rows, listingId)
  /\ Started
  /\ images' = [images EXCEPT
                  !.rows = [i \in DOMAIN images.rows \ {imageId} |-> images.rows[i]],
                  !.r2 = IF r2ok THEN @ \ ObjectsOf(images.rows, {imageId}) ELSE @]
  /\ UNCHANGED <<clock, ticks, listings, nextId, bumpReq, sweep, bumpsDone, arch,
                 profiles, resp, read, upload>>

\* one listing of user 1, no image yet
InitImages ==
  /\ clock = CooldownRow.lastBumpedAt
  /\ ticks = 0
  /\ ops = 0
  /\ listings = <<CooldownRow>>
  /\ nextId = 2
  /\ bumpReq = [r \in BumpReqs |-> IdleBump]
  /\ sweep = NoSweep
  /\ bumpsDone = [i \in Ids |-> IF i = 1 THEN 1 ELSE 0]
  /\ arch = IdleArch
  /\ profiles = (1 :> [isBanned |-> 0])
  /\ resp = NoResp
  /\ read = IdleRead
  /\ images = NoImages
  /\ upload = IdleUpload

NextImages ==
  \/ \E s \in Sessions, i \in RequestIds, n \in UploadSizes :
       UploadListingImages(s, i, n)
  \/ \E outcome \in StoreOutcomes : UploadListingImage(outcome)
  \/ \E r2ok \in BOOLEAN : UploadCleanup(r2ok)
  \/ \E s \in Sessions, i \in RequestIds, r2ok \in BOOLEAN :
       \E imageId \in DOMAIN images.rows : DeleteListingImage(s, i, imageId, r2ok)

SpecImages == InitImages /\ [][NextImages]_vars

\* the queries, run against every store of up to MaxListings rows
QueryClock == StartClock + 4 * MsPerDay

QueryContents ==
  { [userId |-> 1, title |-> TitleLamp, content |-> TextOld, price |-> 500,
     category |-> CatHome],
    [userId |-> 2, title |-> TitleBook, content |-> TextNew, price |-> 2000,
     category |-> CatBooks] }

\* a row as the lifecycle leaves it: an active row was bumped two days ago, an
\* expired or archived row ran out three days after its creation
QueryRow(id, c, status) ==
  [userId |-> c.userId, title |-> c.title, content |-> c.content,
   price |-> c.price, category |-> c.category, status |-> status,
   expiresAt |-> IF status = ACTIVE THEN QueryClock + MsPerDay
                 ELSE StartClock + id + EXPIRY_DEFAULT_DAYS * MsPerDay,
   lastBumpedAt |-> IF status = ACTIVE THEN QueryClock - 2 * MsPerDay ELSE Null,
   bumpCount |-> IF status = ACTIVE THEN 1 ELSE 0,
   createdAt |-> StartClock + id,
   updatedAt |-> IF status = ACTIVE THEN QueryClock - 2 * MsPerDay
                 ELSE StartClock + id + EXPIRY_DEFAULT_DAYS * MsPerDay]

QueryStores ==
  UNION { { [i \in 1..n |-> QueryRow(i, c[i], st[i])] :
              c \in [1..n -> QueryContents], st \in [1..n -> LISTING_STATUS] } :
          n \in 1..MaxListings }

\* user 1 with a clean profile, a banned profile, or no profile row at all
QueryProfiles ==
  { [u \in Users |-> [isBanned |-> 0]],
    [u \in Users |-> [isBanned |-> IF u = 1 THEN 1 ELSE 0]],
    [u \in {2} |-> [isBanned |-> 0]] }

QueryInputs ==
  [limit : {1, 50}, offset : {0, 1},
   category : {Undefined, CatHome},
   priceMin : {Null, 2000}, priceMax : {Null, 500},
   search : {Undefined, <<"b", "O">>},
   sortBy : {"price", "date"}, sortOrder : {"asc", "desc"},
   status : {Undefined, << >>, <<ACTIVE>>, <<EXPIRED, ARCHIVED>>},
   userId : {Null, 1}]

InitQuery ==
  /\ clock = QueryClock
  /\ ticks = 0
  /\ ops = 0
  /\ listings \in QueryStores
  /\ nextId = Len(listings) + 1
  /\ bumpReq = [r \in BumpReqs |-> IdleBump]
  /\ sweep = NoSweep
  /\ bumpsDone = [i \in Ids |-> IF i \in DOMAIN listings THEN listings[i].bumpCount ELSE 0]
  /\ arch = IdleArch
  /\ profiles \in QueryProfiles
  /\ resp = NoResp
  /\ read = IdleRead
  /\ images = NoImages
  /\ upload = IdleUpload

\* one query is put to each store
NextQuery ==
  \/ resp = NoResp /\ \E input \in QueryInputs : GetListings(input)
  \/ resp = NoResp /\ \E input \in QueryInputs : GetListingsWithImages(input)

SpecQuery == InitQuery /\ [][NextQuery]_vars

\* the read endpoints, put to every store of up to MaxListings rows and every
\* profile table by an administrator and by another requester
BrowseFilters ==
  {f \in QueryInputs :
     /\ f.limit = 50 /\ f.offset = 0 /\ f.userId = Null
     /\ f.sortBy = "date" /\ f.sortOrder = "desc"}

NextBrowse ==
  \/ read = IdleRead /\ \E a \in BOOLEAN, f \in BrowseFilters : GetAllListings(a, f)
  \/ read = IdleRead /\ \E a \in BOOLEAN, u \in Users, f \in BrowseFilters :
                          GetUserListings(a, u, f)
  \/ GetUserListingsSweep
  \/ ReadQuery

SpecBrowse == InitQuery /\ [][NextBrowse]_vars

\* the paginated endpoints, asked for a page of every store
PageQueries ==
  [limit : {ParamAbsent, ParamText} \cup {ParamInt(n) : n \in {-1, 0, 1, 2, 100, 101}},
   offset : {ParamAbsent, ParamText} \cup {ParamInt(n) : n \in {-1, 0, 1, 2}},
   status : {Undefined, <<ACTIVE, EXPIRED, ARCHIVED>>}]

NextPage ==
  \/ read = IdleRead /\ \E a \in BOOLEAN, q \in PageQueries :
                          GetAllListings(a, ParseListingFilters(q))
  \/ read = IdleRead /\ \E a \in BOOLEAN, u \in Users, q \in PageQueries :
                          GetUserListings(a, u, ParseListingFilters(q))
  \/ GetUserListingsSweep
  \/ ReadQuery

SpecPage == InitQuery /\ [][NextPage]_vars

\* =================================================================== claims

\* a bump update by request r changes the row of listing i in this step
BumpApplied(r, i) ==
  BumpUpdate(r) /\ bumpReq[r].listingId = i /\ i \in DOMAIN listings

\* C1: once a listing's status is 'archived' it is 'archived' in every later
\* state, whatever create, bump, sweep, edit and archive operations follow.
C1_ArchivedIsTerminal ==
  [][\A i \in DOMAIN listings :
       listings[i].status = ARCHIVED
         => (i \in DOMAIN listings' /\ listings'[i].status = ARCHIVED)]_vars

\* C2: a bump requested by the owner on an archived listing is refused, and
\* no bump update changes the status, expiresAt, lastBumpedAt or bumpCount of
\* an archived listing.
C2_ArchivedBumpRefused ==
  [][(\A r \in BumpReqs, i \in RequestIds, u \in Users, p \in BOOLEAN :
        (BumpCheck(r, i, u, p) /\ i \in DOMAIN listings
           /\ listings[i].userId = u /\ listings[i].status = ARCHIVED)
          => bumpReq'[r].pc = "failed")
     /\
     (\A q \in BumpReqs, j \in DOMAIN listings :
        (BumpApplied(q, j) /\ listings[j].status = ARCHIVED)
          => /\ listings'[j].status = listings[j].status
             /\ listings'[j].expiresAt = listings[j].expiresAt
             /\ listings'[j].lastBumpedAt = listings[j].lastBumpedAt
             /\ listings'[j].bumpCount = listings[j].bumpCount)]_vars

\* C3: two concurrent bumps of one listing cannot both succeed: any two
\* bump requests that completed their update on the same listing took their
\* bump times at least 24 hours apart.
C3_NoDoubleBump ==
  \A r1, r2 \in BumpReqs :
    (r1 # r2 /\ bumpReq[r1].pc = "done" /\ bumpReq[r2].pc = "done"
       /\ bumpReq[r1].listingId = bumpReq[r2].listingId
       /\ bumpReq[r1].listingId \in DOMAIN listings)
      => \/ bumpReq[r1].now - bumpReq[r2].now >= 24 * MsPerHour
         \/ bumpReq[r2].now - bumpReq[r1].now >= 24 * MsPerHour

\* C4: for an existing listing and its owner, the bump is denied for cooldown
\* (nothing written) whenever now - lastBumpedAt < 24 hours, and goes on to
\* its update whenever lastBumpedAt is unset or now - lastBumpedAt >= 24
\* hours, exactly 24 hours included.
C4_CooldownEnforced ==
  [][\A r \in BumpReqs, i \in RequestIds, u \in Users, p \in BOOLEAN :
       (BumpCheck(r, i, u, p) /\ i \in DOMAIN listings /\ listings[i].userId = u)
         => IF listings[i].lastBumpedAt # Null
               /\ clock - listings[i].lastBumpedAt < 24 * MsPerHour
            THEN /\ bumpReq'[r].pc = "failed"
                 /\ bumpReq'[r].reason = "You can bump again in N hour(s)"
                 /\ listings' = listings
            ELSE /\ bumpReq'[r].pc = "update"
                 /\ bumpReq'[r].now = clock]_vars

\* C4 witness: a bump exactly 24 hours after the previous one was let through
C4_Witness ==
  \E r \in BumpReqs :
    /\ bumpReq[r].pc = "update"
    /\ bumpReq[r].listingId \in DOMAIN listings
    /\ listings[bumpReq[r].listingId].lastBumpedAt # Null
    /\ bumpReq[r].now - listings[bumpReq[r].listingId].lastBumpedAt = 24 * MsPerHour

\* C5: after every successful bump expiresAt equals the bump time plus 3 days
\* (free) or plus 7 days (paid), whatever expiresAt was before.
C5_AbsoluteReset ==
  [][\A r \in BumpReqs, i \in DOMAIN listings :
       BumpApplied(r, i)
         => listings'[i].expiresAt =
              bumpReq[r].now + (IF bumpReq[r].isPaid THEN 7 ELSE 3) * MsPerDay]_vars

\* C5 witness: a paid bump taken after the creation time has been applied to
\* a listing that had already been bumped before
C5_Witness ==
  \E r \in BumpReqs :
    /\ bumpReq[r].pc = "done" /\ bumpReq[r].isPaid
    /\ bumpReq[r].listingId \in DOMAIN listings
    /\ LET row == listings[bumpReq[r].listingId] IN
         /\ row.bumpCount = 2
         /\ row.lastBumpedAt = bumpReq[r].now
         /\ row.expiresAt = bumpReq[r].now + 7 * MsPerDay

C7_BumpCountCountsBumps ==
  /\ [](\A i \in DOMAIN listings : listings[i].bumpCount = bumpsDone[i])
  /\ [][\A i \in DOMAIN listings' :
          IF i \notin DOMAIN listings
          THEN listings'[i].bumpCount = 0
          ELSE IF \E r \in BumpReqs : BumpApplied(r, i)
          THEN listings'[i].bumpCount = listings[i].bumpCount + 1
          ELSE listings'[i].bumpCount = listings[i].bumpCount]_vars

\* C7 witness: a listing has been bumped once, and a second bump of it was
\* denied for cooldown and left the count at 1
C7_Witness ==
  \E i \in DOMAIN listings, r \in BumpReqs :
    /\ listings[i].bumpCount = 1 /\ bumpsDone[i] = 1
    /\ bumpReq[r].pc = "failed" /\ bumpReq[r].listingId = i
    /\ bumpReq[r].userId = listings[i].userId

C9_SweepIdempotent ==
  [][(/\ ExpireOldListings
      /\ sweep.clean
      /\ sweep.now <= clock
      /\ \A i \in DOMAIN listings :
           ~(listings[i].status = ACTIVE
               /\ sweep.now < listings[i].expiresAt
               /\ listings[i].expiresAt <= clock))
       => (listings' = listings /\ sweep'.returned = {})]_vars

\* C9 witness: two sweeps in a row, the first of which expired a listing
C9_Witness ==
  /\ sweep.clean /\ sweep.runs = 2 /\ sweep.returned = {}
  /\ \E i \in DOMAIN listings :
       listings[i].status = EXPIRED /\ listings[i].expiresAt <= sweep.now

\* C10: a listing query with no status filter (status omitted or an empty
\* list) never returns a listing whose status is not 'active', whatever the
\* other filters are.
C10_DefaultVisibility ==
  (resp.op # "none" /\ resp.input.status \in {Undefined, << >>})
    => \A k \in 1..Len(resp.ids) : listings[resp.ids[k]].status = ACTIVE

\* C10 witness: an unfiltered query over a store that holds an expired or
\* archived row returned a row
C10_Witness ==
  /\ resp.op = "getListings" /\ resp.input.status = Undefined
  /\ Len(resp.ids) > 0
  /\ \E i \in DOMAIN listings : listings[i].status # ACTIVE
\* C11: every listing-read endpoint (getAllListings, getUserListings,
\* getListingById) has run the sweep before its query, and no listing its
\* query returns is 'active' with expiresAt <= the time of that sweep.
C11_SweepBeforeRead ==
  [][ReadQuery =>
       /\ read.sweptAt # Null
       /\ read.sweptAt <= clock
       /\ \A k \in 1..Len(read'.ids) :
            ~(listings[read'.ids[k]].status = ACTIVE
                /\ listings[read'.ids[k]].expiresAt <= read.sweptAt)]_vars

\* C11 witness: a browse request whose sweep expired one listing returned
\* another listing, which is active and expires after the sweep
C11_Witness ==
  /\ read.pc = "done" /\ read.op = "getAllListings" /\ Len(read.ids) > 0
  /\ \A k \in 1..Len(read.ids) :
       listings[read.ids[k]].status = ACTIVE
         /\ listings[read.ids[k]].expiresAt > read.sweptAt
  /\ \E i \in DOMAIN listings :
       /\ listings[i].status = EXPIRED
       /\ listings[i].updatedAt = read.sweptAt
       /\ listings[i].expiresAt <= read.sweptAt

\* C12: a bump of a missing listing fails with "Listing not found"; else a
\* bump by someone other than the owner fails with "You don't own this
\* listing"; else a bump inside the cooldown fails with the cooldown reason;
\* and a bump that fails leaves every listing, and the bump tally, as it was.
C12_DeniedBumpChangesNothing ==
  [][\A r \in BumpReqs, i \in RequestIds, u \in Users, p \in BOOLEAN :
       BumpCheck(r, i, u, p) =>
         /\ IF i \notin DOMAIN listings
            THEN /\ bumpReq'[r].pc = "failed"
                 /\ bumpReq'[r].reason = "Listing not found"
            ELSE IF listings[i].userId # u
            THEN /\ bumpReq'[r].pc = "failed"
                 /\ bumpReq'[r].reason = "You don't own this listing"
            ELSE (listings[i].lastBumpedAt # Null
                    /\ clock - listings[i].lastBumpedAt < 24 * MsPerHour)
                   => /\ bumpReq'[r].pc = "failed"
                      /\ bumpReq'[r].reason = "You can bump again in N hour(s)"
         /\ bumpReq'[r].pc = "failed"
              => (listings' = listings /\ bumpsDone' = bumpsDone)]_vars

\* C12 witness: a bump by another user of a listing that is inside its
\* cooldown was denied for ownership, and the listing still carries the
\* values its one bump gave it
C12_Witness ==
  \E r \in BumpReqs :
    /\ bumpReq[r].pc = "failed"
    /\ bumpReq[r].reason = "You don't own this listing"
    /\ bumpReq[r].listingId \in DOMAIN listings
    /\ LET row == listings[bumpReq[r].listingId] IN
         /\ row.userId # bumpReq[r].userId
         /\ row.bumpCount = 1
         /\ row.lastBumpedAt = clock
         /\ row.expiresAt = row.lastBumpedAt + 3 * MsPerDay

\* C13: a step that changes a listing's lastBumpedAt or bumpCount is a bump
\* that sets all four of expiresAt = bump time + extension, lastBumpedAt =
\* bump time, bumpCount + 1 and status = 'active' in that one step; so in
\* every state a listing either carries no bump at all (bumpCount 0,
\* lastBumpedAt unset, expiresAt as created) or a whole one (bumpCount > 0
\* and expiresAt = lastBumpedAt + 3 or 7 days).
C13_BumpIsAtomic ==
  /\ [](\A i \in DOMAIN listings :
          IF listings[i].bumpCount = 0
          THEN /\ listings[i].lastBumpedAt = Null
               /\ listings[i].expiresAt = listings[i].createdAt + 3 * MsPerDay
          ELSE /\ listings[i].lastBumpedAt # Null
               /\ listings[i].expiresAt - listings[i].lastBumpedAt
                    \in {3 * MsPerDay, 7 * MsPerDay})
  /\ [][\A i \in DOMAIN listings :
          (\/ listings'[i].lastBumpedAt # listings[i].lastBumpedAt
           \/ listings'[i].bumpCount # listings[i].bumpCount
           \/ \E r \in BumpReqs : BumpApplied(r, i))
            => \E r \in BumpReqs :
                 /\ BumpApplied(r, i)
                 /\ listings'[i].expiresAt =
                      bumpReq[r].now + (IF bumpReq[r].isPaid THEN 7 ELSE 3) * MsPerDay
                 /\ listings'[i].lastBumpedAt = bumpReq[r].now
                 /\ listings'[i].bumpCount = listings[i].bumpCount + 1
                 /\ listings'[i].status = ACTIVE]_vars

\* C13 witness: a listing whose first three days had run out has been bumped:
\* it is active and carries the whole of its first bump, taken at a time at
\* which the sweep finds the unbumped listing due
C13_Witness ==
  \E r \in BumpReqs :
    /\ bumpReq[r].pc = "done"
    /\ bumpReq[r].listingId \in DOMAIN listings
    /\ LET row == listings[bumpReq[r].listingId] IN
         /\ row.status = ACTIVE
         /\ row.bumpCount = 1
         /\ row.lastBumpedAt = bumpReq[r].now
         /\ row.lastBumpedAt >= row.createdAt + 3 * MsPerDay
         /\ row.expiresAt = row.lastBumpedAt + 3 * MsPerDay

\* C14: archiveListing of a missing listing fails with "Listing not found",
\* changes no listing and hands nothing to the notifier; on an existing
\* listing it goes on to its update whatever the listing's status, owner or
\* cooldown, and the update sets that listing's status to 'archived', leaves
\* its expiresAt, lastBumpedAt and bumpCount as they were and touches no
\* other listing.
C14_ArchiveEffect ==
  /\ [](arch.error = "Listing not found"
          => (arch.pc = "done" /\ ~arch.success /\ arch.event = NoEvent))
  /\ [][(\A i \in RequestIds, reason \in Reasons :
           ArchiveSelect(i, reason) =>
             /\ listings' = listings
             /\ IF i \in DOMAIN listings
                THEN arch'.pc = "update" /\ arch'.error = ""
                ELSE /\ arch'.pc = "done" /\ ~arch'.success
                     /\ arch'.error = "Listing not found"
                     /\ arch'.event = NoEvent)
        /\
        (ArchiveUpdate =>
           /\ arch.listingId \in DOMAIN listings
           /\ \A j \in DOMAIN listings :
                IF j = arch.listingId
                THEN /\ listings'[j].status = ARCHIVED
                     /\ listings'[j].expiresAt = listings[j].expiresAt
                     /\ listings'[j].lastBumpedAt = listings[j].lastBumpedAt
                     /\ listings'[j].bumpCount = listings[j].bumpCount
                ELSE listings'[j] = listings[j])]_vars

\* C14 witness: a listing that had been bumped in this very millisecond (so
\* is inside its cooldown) has been archived and keeps its bump's values
C14_Witness ==
  /\ arch.pc \in {"notify", "done"} /\ arch.written
  /\ arch.listingId \in DOMAIN listings
  /\ LET row == listings[arch.listingId] IN
       /\ row.status = ARCHIVED
       /\ row.bumpCount = 1
       /\ row.lastBumpedAt = clock
       /\ row.expiresAt = clock + 3 * MsPerDay

\* C15: when the notification is not delivered (Telegram answers ok: false,
\* the fetch throws, or no bot token is configured) archiveListing still
\* returns success and the step writes to no listing, so a listing that is
\* 'archived' stays 'archived'.
C15_NotifyFailureKeepsArchive ==
  /\ []((arch.pc = "done" /\ arch.delivery \in {"not ok", "fetch failed", "no token"})
          => arch.success)
  /\ [][\A o \in {"not ok", "fetch failed", "no token"} :
          ArchiveNotify(o) =>
            /\ arch'.pc = "done"
            /\ arch'.success
            /\ arch'.error = ""
            /\ listings' = listings]_vars

\* C15 witness: an archive whose notification met a missing bot token has
\* returned success, and its listing is archived
C15_Witness ==
  /\ arch.pc = "done" /\ arch.delivery = "no token" /\ ~arch.sent
  /\ arch.success /\ arch.written
  /\ arch.listingId \in DOMAIN listings
  /\ listings[arch.listingId].status = ARCHIVED

C17_BannedExcluded ==
  (read.pc = "done" /\ ~read.isAdmin
     /\ read.op \in {"getAllListings", "getUserListings"})
    => \A k \in 1..Len(read.ids) :
         ~(/\ listings[read.ids[k]].userId \in DOMAIN profiles
           /\ profiles[listings[read.ids[k]].userId].isBanned = 1)

\* C17 witness: a browse by a non-administrator over a store that holds an
\* active listing of a banned owner returned another owner's listing
C17_Witness ==
  /\ read.pc = "done" /\ ~read.isAdmin /\ read.op = "getAllListings"
  /\ read.input.status = Undefined
  /\ Len(read.ids) > 0
  /\ \E i \in DOMAIN listings :
       /\ listings[i].status = ACTIVE
       /\ listings[i].userId \in DOMAIN profiles
       /\ profiles[listings[i].userId].isBanned = 1

\* C18: the page answered to an administrator, by the browse endpoint or by
\* the profile endpoint for a banned target user, holds every listing of a
\* banned owner that meets the status, category, price, owner and search
\* filters of the request.
C18_AdminSeesBanned ==
  (read.pc = "done" /\ read.isAdmin
     /\ read.op \in {"getAllListings", "getUserListings"})
    => \A i \in DOMAIN listings :
         (/\ listings[i].userId \in DOMAIN profiles
          /\ profiles[listings[i].userId].isBanned = 1
          /\ StatusCond(listings[i], read.input)
          /\ OtherConds(listings[i], read.input))
           => \E k \in 1..Len(read.ids) : read.ids[k] = i

\* C19: a bump denied for cooldown reports the hours left rounded up to a
\* whole hour: the least n with n hours >= 24 hours - (now - lastBumpedAt),
\* a number in 1..24, and 1 when the last bump was 23 hours ago; every other
\* outcome of the check, the allowed bump included, reports no hours.
C19_HoursRemaining ==
  [][\A r \in BumpReqs, i \in RequestIds, u \in Users, p \in BOOLEAN :
       BumpCheck(r, i, u, p) =>
         IF /\ i \in DOMAIN listings /\ listings[i].userId = u
            /\ listings[i].lastBumpedAt # Null
            /\ clock - listings[i].lastBumpedAt < 24 * MsPerHour
         THEN LET left == 24 * MsPerHour - (clock - listings[i].lastBumpedAt)
                  n == bumpReq'[r].hours IN
                /\ n \in 1..24
                /\ (n - 1) * MsPerHour < left /\ left <= n * MsPerHour
                /\ (clock - listings[i].lastBumpedAt = 23 * MsPerHour) => n = 1
         ELSE bumpReq'[r].hours = Null]_vars

\* C19 witness: a bump 1 ms short of 23 hours after the last one was
\* denied and reports 2 hours
C19_Witness ==
  \E r \in BumpReqs :
    /\ bumpReq[r].pc = "failed" /\ bumpReq[r].hours = 2
    /\ bumpReq[r].listingId \in DOMAIN listings
    /\ clock - listings[bumpReq[r].listingId].lastBumpedAt = 23 * MsPerHour - 1

PageMatches == GetListingsWithImagesMatch(listings, profiles, read.input)

\* C21 as stated: the limit of a listing request is its limit parameter
\* clamped to 1..100, 50 when there is none, and hasMore of every page is
\* (number of listings returned = limit).
C21_HasMoreClampedLimit ==
  [][(\A a \in BOOLEAN, q \in PageQueries :
        GetAllListings(a, ParseListingFilters(q))
          => read'.input.limit =
               (IF q.limit.kind # "int" THEN 50
                ELSE IF q.limit.n < 1 THEN 1
                ELSE IF q.limit.n > 100 THEN 100 ELSE q.limit.n))
     /\
     (ReadQuery => read'.hasMore = (Len(read'.ids) = read.input.limit))]_vars

\* C21 amended: the limit is 50 when the limit parameter is missing, is no
\* number or is 0, and otherwise its number clamped to 1..100; hasMore of
\* every page is (number of listings returned = limit): true when exactly
\* limit matching listings remain from the offset on, and false on the empty
\* page that follows them.
C21_HasMoreDefaultOnZero ==
  /\ []((read.pc = "done" /\ read.op \in {"getAllListings", "getUserListings"})
          => /\ read.input.limit \in 1..100
             /\ read.hasMore = (Len(read.ids) = read.input.limit)
             /\ (read.sweptAt # Null
                   /\ Cardinality(PageMatches) = read.input.offset + read.input.limit)
                  => (read.hasMore /\ Len(read.ids) = read.input.limit)
             /\ (read.sweptAt # Null
                   /\ Cardinality(PageMatches) = read.input.offset)
                  => (~read.hasMore /\ read.ids = << >>))
  /\ [][\A a \in BOOLEAN, q \in PageQueries :
          GetAllListings(a, ParseListingFilters(q))
            => read'.input.limit =
                 (IF q.limit.kind # "int" \/ q.limit.n = 0 THEN 50
                  ELSE IF q.limit.n < 1 THEN 1
                  ELSE IF q.limit.n > 100 THEN 100 ELSE q.limit.n)]_vars

\* C21 witness: a page of limit 2 holds the only two matching listings and
\* says hasMore
C21_Witness ==
  /\ read.pc = "done" /\ read.op = "getAllListings"
  /\ read.input.limit = 2 /\ read.input.offset = 0
  /\ Len(read.ids) = 2 /\ read.hasMore
  /\ Cardinality(PageMatches) = 2

\* C22: createListing adds one listing, owned by the caller, with status
\* 'active', expiresAt = creation time + 3 days, bumpCount 0 and lastBumpedAt
\* unset, and leaves the others as they are; a bump by the owner of a listing
\* that has never been bumped passes the eligibility check, however soon
\* after the creation it comes.
C22_CreationDefaults ==
  [][(\A u \in Users, input \in CreateInputs :
        CreateListing(u, input) =>
          /\ DOMAIN listings' = DOMAIN listings \cup {nextId}
          /\ nextId \notin DOMAIN listings
          /\ \A j \in DOMAIN listings : listings'[j] = listings[j]
          /\ listings'[nextId].userId = u
          /\ listings'[nextId].status = "active"
          /\ listings'[nextId].expiresAt = clock + 3 * MsPerDay
          /\ listings'[nextId].bumpCount = 0
          /\ listings'[nextId].lastBumpedAt = Null)
     /\
     (\A r \in BumpReqs, i \in RequestIds, u \in Users, p \in BOOLEAN :
        (BumpCheck(r, i, u, p) /\ i \in DOMAIN listings
           /\ listings[i].userId = u /\ listings[i].bumpCount = 0)
          => bumpReq'[r].pc = "update")]_vars

\* C22 witness: the owner's bump in the very millisecond of the creation has
\* passed the eligibility check
C22_Witness ==
  \E r \in BumpReqs :
    /\ bumpReq[r].pc = "update"
    /\ bumpReq[r].listingId \in DOMAIN listings
    /\ LET row == listings[bumpReq[r].listingId] IN
         /\ row.createdAt = bumpReq[r].now
         /\ row.bumpCount = 0 /\ row.lastBumpedAt = Null
         /\ row.status = ACTIVE
         /\ row.expiresAt = row.createdAt + 3 * MsPerDay

\* C23: an archive request with no valid session, or with a session whose
\* role is not 'admin' (the listing's owner included), is answered with an
\* error, writes to no listing and hands nothing to the notifier.
C23_ArchiveAdminOnly ==
  /\ [](arch.error \in {"Authentication required", "Admin access required"}
          => (arch.pc = "done" /\ ~arch.success /\ ~arch.written
                /\ arch.event = NoEvent))
  /\ [][\A s \in Sessions, i \in RequestIds, reason \in ArchiveReasons :
          (ArchiveListing(s, i, reason) /\ s.role # "admin")
            => /\ listings' = listings
               /\ arch'.pc = "done" /\ ~arch'.success
               /\ arch'.error \in {"Authentication required", "Admin access required"}
               /\ arch'.event = NoEvent]_vars

\* C23 witness: an archive request for an active listing was refused for
\* want of the admin role, and the listing is still active
C23_Witness ==
  /\ arch.pc = "done" /\ arch.error = "Admin access required"
  /\ arch.reason = "prohibited item"
  /\ arch.listingId \in DOMAIN listings
  /\ listings[arch.listingId].status = ACTIVE

\* C24: after any sequence of accepted image uploads and image deletions a
\* listing has at most 10 stored images (an upload that would bring the
\* count above 10 is rejected)
C24_ImageCap ==
  \A l \in DOMAIN listings :
    Cardinality(ImagesOf(images.rows, l)) <= MaxImagesPerListing

\* C30: when an upload of a batch fails, the cleanup removes the images the
\* batch has stored so far, the request fails, and the images the listing
\* had before the batch remain stored
C30_CleanupKeepsEarlierImages ==
  [][\A r2ok \in BOOLEAN :
       UploadCleanup(r2ok)
         => /\ upload.stored \cap DOMAIN images'.rows = {}
            /\ upload'.status = 500
            /\ (upload.had \cap DOMAIN images.rows) \subseteq DOMAIN images'.rows]_vars

\* C25: an owner's bump read the listing before an admin archive wrote it and
\* updates it after the archive has returned success: the listing's status
\* is 'archived' after the bump's update too
C25_ArchiveSurvivesRacingBump ==
  [][\A r \in BumpReqs :
       (/\ BumpUpdate(r)
        /\ arch.pc = "done" /\ arch.success /\ arch.written
        /\ arch.listingId = bumpReq[r].listingId
        /\ bumpReq[r].now < arch.now)
         => listings'[arch.listingId].status = ARCHIVED]_vars

\* C26: the bump's update adds 1 to the bumpCount the row has when the
\* statement runs, whatever count the request read at its eligibility
\* check; so when every bump request in flight has finished, bumpCount is the
\* number of requests that passed eligibility and performed their update
C26_NoLostBumpCount ==
  /\ [][\A r \in BumpReqs :
          (BumpUpdate(r) /\ bumpReq[r].listingId \in DOMAIN listings)
            => listings'[bumpReq[r].listingId].bumpCount
                 = listings[bumpReq[r].listingId].bumpCount + 1]_vars
  /\ []((\A r \in BumpReqs : bumpReq[r].pc = "done")
          => \A i \in DOMAIN listings :
               listings[i].bumpCount >=
                 Cardinality({r \in BumpReqs : bumpReq[r].listingId = i}))

\* C26 witness: two bump requests read the same listing at bumpCount 0, both
\* passed eligibility, both have updated, and bumpCount is 2
C26_Witness ==
  \E i \in DOMAIN listings :
    /\ \A r \in BumpReqs :
         bumpReq[r].pc = "done" /\ bumpReq[r].listingId = i /\ bumpReq[r].seen = 0
    /\ Cardinality(BumpReqs) = 2
    /\ listings[i].bumpCount = 2

\* C27: with a clock that never goes backwards, a listing whose status is
\* 'expired' has expiresAt <= the current time in every reachable state
C27_ExpiredNotInFuture ==
  \A i \in DOMAIN listings :
    listings[i].status = EXPIRED => listings[i].expiresAt <= clock

\* C27 witness: a sweep has expired a listing while a bump of it that had
\* passed eligibility still waits to run its update
C27_Witness ==
  \E i \in DOMAIN listings, r \in BumpReqs :
    /\ listings[i].status = EXPIRED
    /\ listings[i].expiresAt <= clock
    /\ i \in sweep.returned
    /\ bumpReq[r].pc = "update" /\ bumpReq[r].listingId = i

\* C28: a bump request over HTTP with isPaid = true leaves every listing as
\* it is; no paid bump ever reaches the bump engine through the endpoint, so
\* every bumped listing carries the free 3-day expiry, never the 7-day one
C28_NoPaidBumpOverHttp ==
  /\ [][\A r \in BumpReqs, s \in Sessions, i \in RequestIds :
          BumpListing(r, s, i, TRUE)
            => /\ listings' = listings
               /\ bumpReq'[r].pc \in {"failed", "message"}]_vars
  /\ [](\A r \in BumpReqs : bumpReq[r].pc \in {"update", "done"} => ~bumpReq[r].isPaid)
  /\ [](\A i \in DOMAIN listings :
          listings[i].bumpCount > 0
            => listings[i].expiresAt
                 = listings[i].lastBumpedAt + EXPIRY_FREE_BUMP_DAYS * MsPerDay)

\* C28 witness: the owner of a never-bumped listing, eligible for a bump,
\* asked for a paid bump and was answered with the payment message
C28_Witness ==
  \E r \in BumpReqs :
    /\ bumpReq[r].pc = "message" /\ bumpReq[r].isPaid
    /\ bumpReq[r].listingId \in DOMAIN listings
    /\ listings[bumpReq[r].listingId].userId = bumpReq[r].userId
    /\ listings[bumpReq[r].listingId].bumpCount = 0
    /\ CanBumpListing(listings, bumpReq[r].listingId, bumpReq[r].userId, clock).canBump

\* C29: every listing on a page answered by getAllListings or getUserListings
\* has an owner with a profile row whose isBanned is 0; an active listing
\* whose owner has no profile row is left out like a banned owner's
C29_OwnerProfileRequired ==
  (read.pc = "done" /\ read.op \in {"getAllListings", "getUserListings"})
    => \A k \in 1..Len(read.ids) :
         /\ listings[read.ids[k]].userId \in DOMAIN profiles
         /\ profiles[listings[read.ids[k]].userId].isBanned = 0

\* C29 witness: a browse without filters over a store that holds an active
\* listing of an owner without a profile row returned a page, and that
\* listing is not on it
C29_Witness ==
  /\ read.pc = "done" /\ read.op = "getAllListings"
  /\ read.input.status = Undefined /\ read.input.category = Undefined
  /\ read.input.search = Undefined
  /\ read.input.priceMin = Null /\ read.input.priceMax = Null
  /\ Len(read.ids) > 0
  /\ \E i \in DOMAIN listings :
       /\ listings[i].status = ACTIVE
       /\ listings[i].userId \notin DOMAIN profiles
       /\ \A k \in 1..Len(read.ids) : read.ids[k] # i

====
